---- MODULE Spec2Model ----
(***************************************************************************)
(* Model of the audio splicing handler of api/splice-audio.py: the request *)
(* handler do_POST, its strategy selection, and the distributed splice     *)
(* (_splice_distributed_pyav, _split_music_for_insertion and the           *)
(* interleaving of speech chunks and music segments).                      *)
(*                                                                         *)
(* Times are exact: a duration is a whole number of ticks, TicksPerSec     *)
(* ticks to the second, chosen so that every product and quotient the      *)
(* planner forms (d * 0.5, available / n, i * interval) is a whole number  *)
(* of ticks for the durations and chunk counts drawn here.                 *)
(***************************************************************************)
EXTENDS Integers, Sequences, FiniteSets, TLC

\* Largest number of speech chunks in a request.
MaxChunks == 3
\* Longest music duration drawn, in half seconds.
MaxMusicHalfSec == 80
\* Longest speech chunk duration drawn, in seconds.
MaxSpeechSec == 2

RECURSIVE Gcd(_, _)
Gcd(a, b) == IF b = 0 THEN a ELSE Gcd(b, a % b)

Lcm(a, b) == (a * b) \div Gcd(a, b)

RECURSIVE LcmUpTo(_)
LcmUpTo(k) == IF k <= 1 THEN 1 ELSE Lcm(k, LcmUpTo(k - 1))

\* Ticks per second: a half-second duration halved and divided by any chunk
\* count up to MaxChunks is still a whole number of ticks.
TicksPerSec == 4 * LcmUpTo(MaxChunks)

Sec(k) == k * TicksPerSec

\* Durations get_audio_duration may return for the music file.
MusicDurations == {h * (TicksPerSec \div 2) : h \in 0..MaxMusicHalfSec}

\* Durations get_audio_duration may return for one speech chunk.
SpeechDurations == {Sec(k) : k \in 1..MaxSpeechSec}

Max(a, b) == IF a >= b THEN a ELSE b

RECURSIVE SumSeq(_)
SumSeq(s) == IF s = <<>> THEN 0 ELSE s[1] + SumSeq(Tail(s))

\* buffer_start = 5.0, buffer_end = 10.0 (seconds)
BufferStartSec == 5
BufferEndSec == 10
buffer_start == Sec(BufferStartSec)
buffer_end == Sec(BufferEndSec)

\* Faulty variant of AvailableMusicDuration: the trailing buffer is not reserved.
AvailableWithoutEndBuffer(music_duration) ==
    Max(music_duration - buffer_start, music_duration \div 2)

\* available_music_duration = max(music_duration - buffer_start - buffer_end,
\*                                music_duration * 0.5)
AvailableMusicDuration(music_duration) ==
    Max(music_duration - buffer_start - buffer_end, music_duration \div 2)

\* Faulty variant of InsertionPoints: the loop index starts at 1, so the first
\* of several points is one interval after the leading buffer.
InsertionPointsFromOne(music_duration, n) ==
    IF n = 1
    THEN <<buffer_start>>
    ELSE LET interval == AvailableMusicDuration(music_duration) \div n
         IN  [i \in 1..n |-> buffer_start + (i * interval)]

\* The list insertion_points: one point after the leading buffer for a single
\* chunk, else n points one interval = available / n apart.
InsertionPoints(music_duration, n) ==
    IF n = 1
    THEN <<buffer_start>>
    ELSE LET interval == AvailableMusicDuration(music_duration) \div n
         IN  [i \in 1..n |-> buffer_start + ((i - 1) * interval)]

\* Python's None, the entry of music_segments for "no segment needed".
None == [none |-> TRUE]

Segment(a, b) == [start |-> a, end |-> b]

\* current_start when the loop of _split_music_for_insertion reaches the
\* i-th insertion point (1-based), and after the loop for i = Len + 1.
CurrentStart(points, i) == IF i = 1 THEN 0 ELSE points[i - 1]

\* The list music_segments returned by _split_music_for_insertion.
SplitMusicForInsertion(music_duration, points) ==
    LET between == [i \in 1..Len(points) |->
                       IF points[i] > CurrentStart(points, i)
                       THEN Segment(CurrentStart(points, i), points[i])
                       ELSE None]
        last == CurrentStart(points, Len(points) + 1)
    IN  IF last < music_duration
        THEN Append(between, Segment(last, music_duration))
        ELSE between

\* The (start, end) arguments of the calls of _extract_music_segment made by
\* _split_music_for_insertion, in call order: one per segment that is not None.
ExtractCalls(segments) == SelectSeq(segments, LAMBDA s : s # None)

\* Pieces of the concatenation list.
Speech(chunks) == [kind |-> "speech", chunks |-> chunks]
Music(a, b) == [kind |-> "music", start |-> a, end |-> b]

\* Faulty variant of InterleaveFrom: a speech chunk is appended only together
\* with a music segment that is present.
RECURSIVE InterleaveFromWithSegment(_, _, _, _)
InterleaveFromWithSegment(i, n, points, segments) ==
    IF i > Len(points)
    THEN <<>>
    ELSE (IF i <= Len(segments) /\ segments[i] # None
          THEN <<Music(segments[i].start, segments[i].end)>>
               \o (IF i < n THEN <<Speech(<<i>>)>> ELSE <<>>)
          ELSE <<>>)
         \o InterleaveFromWithSegment(i + 1, n, points, segments)

\* The loop "for i in range(len(insertion_points))" of _splice_distributed_pyav
\* from iteration i (1-based) on: music segment i when present, then speech
\* chunk with 0-based index i when there is one.
RECURSIVE InterleaveFrom(_, _, _, _)
InterleaveFrom(i, n, points, segments) ==
    IF i > Len(points)
    THEN <<>>
    ELSE (IF i <= Len(segments) /\ segments[i] # None
          THEN <<Music(segments[i].start, segments[i].end)>>
          ELSE <<>>)
         \o (IF i < n THEN <<Speech(<<i>>)>> ELSE <<>>)
         \o InterleaveFrom(i + 1, n, points, segments)

\* Faulty variant of Interleave: no intro speech; speech chunk i is placed
\* after music segment i.
RECURSIVE MusicThenSpeechFrom(_, _, _, _)
MusicThenSpeechFrom(i, n, points, segments) ==
    IF i > Len(points)
    THEN <<>>
    ELSE (IF i <= Len(segments) /\ segments[i] # None
          THEN <<Music(segments[i].start, segments[i].end)>>
          ELSE <<>>)
         \o (IF i <= n THEN <<Speech(<<i - 1>>)>> ELSE <<>>)
         \o MusicThenSpeechFrom(i + 1, n, points, segments)

InterleaveMusicFirst(n, points, segments) ==
    MusicThenSpeechFrom(1, n, points, segments)
    \o (IF Len(segments) > Len(points) /\ segments[Len(segments)] # None
        THEN <<Music(segments[Len(segments)].start, segments[Len(segments)].end)>>
        ELSE <<>>)

\* Faulty variant of Interleave: the final music segment is not added.
InterleaveWithoutFinal(n, points, segments) ==
    (IF n > 0 THEN <<Speech(<<0>>)>> ELSE <<>>)
    \o InterleaveFrom(1, n, points, segments)

\* temp_files_to_concat of _splice_distributed_pyav for n speech chunks.
Interleave(n, points, segments) ==
    (IF n > 0 THEN <<Speech(<<0>>)>> ELSE <<>>)
    \o InterleaveFrom(1, n, points, segments)
    \o (IF Len(segments) > Len(points) /\ segments[Len(segments)] # None
        THEN <<Music(segments[Len(segments)].start, segments[Len(segments)].end)>>
        ELSE <<>>)

\* A request field that is absent from the JSON body.
Absent == "absent"

\* Values of spliceMode: the three documented modes, and "other" for any
\* other JSON value.
ModeValues == {"intro", "random", "distributed", "other"}

\* Request bodies that parse: where the music comes from, where the speech
\* comes from and how many chunks it has, the mode and the session id.
\*   speech = "urls": speechAudioUrls, a non-empty list
\*   speech = "b64_list": speechAudio, a non-empty list
\*   speech = "b64": speechAudio, one string
Requests ==
    {r \in [music : {"none", "b64", "url"},
            speech : {"none", "b64", "b64_list", "urls"},
            chunks : 0..MaxChunks,
            spliceMode : ModeValues \cup {Absent},
            sessionId : BOOLEAN] :
        /\ (r.speech = "none") <=> (r.chunks = 0)
        /\ (r.speech = "b64") => (r.chunks = 1)}

\* splice_mode = data.get('spliceMode', 'intro')
SpliceModeOf(r) == IF r.spliceMode = Absent THEN "intro" ELSE r.spliceMode

\* Faulty variant of HasSpeech: the speech is not looked at.
HasSpeechUnchecked(r) == TRUE

\* has_original, has_speech
HasOriginal(r) == r.music # "none"
HasSpeech(r) == r.speech # "none"

\* Faulty variant of StrategyFor: the first branch does not test
\* has_multiple_chunks.
StrategyForAnyChunkCount(has_multiple_chunks, splice_mode) ==
    IF splice_mode \in {"distributed", "random"}
    THEN "distributed"
    ELSE IF splice_mode = "intro"
         THEN "intro"
         ELSE IF has_multiple_chunks THEN "distributed" ELSE "intro"

\* Faulty variant of StrategyFor: the mode is not looked at; the number of
\* chunks alone selects the splice.
StrategyForChunkCountOnly(has_multiple_chunks, splice_mode) ==
    IF has_multiple_chunks THEN "distributed" ELSE "intro"

\* The splice that do_POST runs for the mode and has_multiple_chunks:
\* "distributed" is splice_distributed_pyav, "intro" is splice_intro.
StrategyFor(has_multiple_chunks, splice_mode) ==
    IF has_multiple_chunks /\ splice_mode \in {"distributed", "random"}
    THEN "distributed"
    ELSE IF splice_mode = "intro"
         THEN "intro"
         ELSE IF has_multiple_chunks THEN "distributed" ELSE "intro"

\* Faulty variant of IntroPieces: the music is written before the speech.
IntroPiecesMusicFirst(n, d) == <<Music(0, d), Speech([i \in 1..n |-> i - 1])>>

\* Faulty variant of IntroPieces: only the first chunk is used as the speech.
IntroPiecesFirstChunkOnly(n, d) == <<Speech(<<0>>), Music(0, d)>>

\* The pieces splice_intro joins: the speech file, which holds the n chunks in
\* order (combined_speech.mp3 when there are several), then the whole music.
IntroPieces(n, d) == <<Speech([i \in 1..n |-> i - 1]), Music(0, d)>>

\* The body of an error response, and of the success response.
ErrorResponse(status) ==
    [status |-> status, success |-> FALSE, deliveryMethod |-> "error",
     finalAudioUrl |-> ""]

\* The URL that a successful vercel_blob.put returns.
BlobUrl == "https://blob/final-audio/final.mp3"

SuccessResponse ==
    [status |-> 200, success |-> TRUE, deliveryMethod |-> "blob",
     finalAudioUrl |-> BlobUrl]

\* requests.get(blob_url, timeout=120)
DownloadTimeoutSec == 120

\* The assets a request refers to: the music, and speech chunk i (0-based).
MusicAsset == [kind |-> "music", index |-> 0]
SpeechAsset(i) == [kind |-> "speech", index |-> i]

\* One call of requests.get by _download_from_blob_url, and how it ended.
Fetch(asset, ok) == [asset |-> asset, timeout |-> DownloadTimeoutSec, ok |-> ok]

\* Faulty variant of DownloadRaises: a failed download is not raised.
DownloadNeverRaises(ok) == FALSE

\* _download_from_blob_url raises when requests.get or raise_for_status does.
DownloadRaises(ok) == ~ok

\* The name of the file do_POST writes speech chunk i (0-based) to:
\* speech.mp3 for the single base64 chunk, speech_{i}.mp3 otherwise.
SpeechFile(r, i) ==
    IF r.speech = "b64" THEN <<"speech.mp3">> ELSE <<"speech_i.mp3", i>>

\* The responses the handler begins when it sends `first` and the sends that
\* follow may raise (the client is gone, the body cannot be written):
\*   "try":        a send inside the outer try; when it raises, the outer
\*                 except sends 500
\*   "upload_try": the success response, sent inside the try around the
\*                 upload; when it raises, its except sends 503, and when
\*                 that raises too the outer except sends 500
\*   "except":     the 500 sent by the outer except; when it raises, the
\*                 exception leaves do_POST
SendAttempts(first, where) ==
    CASE where = "except" -> {<<first>>}
      [] where = "try" -> {<<first>>, <<first, ErrorResponse(500)>>}
      [] where = "upload_try" ->
            {<<first>>,
             <<first, ErrorResponse(503)>>,
             <<first, ErrorResponse(503), ErrorResponse(500)>>}

\* How an upload of the final audio can end (lines 204-233, 734-782):
\* vercel_blob was not imported, the token is missing, vercel_blob.put raises,
\* its result holds no URL, or it returns a URL.
UploadOutcomes == {"unavailable", "no_token", "put_failed", "no_url", "ok"}

\* Whether vercel_blob.put is called.
PutCalled(outcome) == outcome \in {"put_failed", "no_url", "ok"}

\* What the call of vercel_blob.put gave: an exception, a result without URL,
\* a result with the URL.
PutResult(outcome) ==
    CASE outcome = "put_failed" -> [raised |-> TRUE, url |-> ""]
      [] outcome = "no_url" -> [raised |-> FALSE, url |-> ""]
      [] outcome = "ok" -> [raised |-> FALSE, url |-> BlobUrl]

\* Faulty variant of ResponseAfterUpload: a put result without URL is not
\* checked and is answered as a success.
ResponseAfterUploadUnchecked(outcome) ==
    IF outcome = "ok"
    THEN SuccessResponse
    ELSE IF outcome = "no_url"
         THEN [SuccessResponse EXCEPT !.finalAudioUrl = ""]
         ELSE ErrorResponse(503)

\* The response do_POST sends first after the upload step: the success body
\* with the URL that _upload_to_blob_storage returned, else the error 503.
ResponseAfterUpload(outcome) ==
    IF outcome = "ok" THEN SuccessResponse ELSE ErrorResponse(503)

VARIABLES
    pc,                   \* position of the request in the handler
    request,              \* the parsed request body
    has_multiple_chunks,  \* has_multiple_chunks of do_POST
    strategy,             \* the splice do_POST runs: "distributed" or "intro"
    speech_durations,     \* duration of each speech chunk, in request order
    music_duration,       \* duration of the music file (original_duration)
    insertion_points,     \* insertion_points of _splice_distributed_pyav
    music_segments,       \* music_segments of _splice_distributed_pyav
    extract_calls,        \* calls of _extract_music_segment made so far
    temp_files_to_concat, \* the final concatenation list
    responses,            \* the responses the handler began to send, in order
    files_written,        \* files written to the temporary directory so far
    speech_paths,         \* speech_paths of do_POST
    fetches,              \* the calls of requests.get made so far
    uploads,              \* the results of the calls of vercel_blob.put so far
    raised,               \* the exception that ended the request, or "none"
    limiter,              \* a use of limit_duration: its input, bound, outputs
    probe,                \* a call of get_audio_duration: its file and result
    tmp,                  \* the files of /tmp with the fixed names
    workers,              \* the requests that use /tmp at the same time
    extraction,           \* a run of _split_music_for_insertion on real files
    concat,               \* a byte-level concatenation: its files and output
    download,             \* a call of download_youtube_audio
    tts,                  \* a text-to-speech request of generate-speech
    cleanup               \* a cleanup-session request and the blob store

requestVars == <<pc, request, has_multiple_chunks, strategy, speech_durations,
                 music_duration, insertion_points, music_segments,
                 extract_calls, temp_files_to_concat, responses,
                 files_written, speech_paths, fetches, uploads, raised>>

\* The variables of the function-level specifications.
serviceVars == <<extraction, concat, download, tts, cleanup>>

auxVars == <<limiter, probe, tmp, workers, serviceVars>>

vars == <<requestVars, auxVars>>

handlerVars == <<request, has_multiple_chunks, strategy, responses,
                 files_written, speech_paths, fetches, uploads, raised>>

ioVars == <<files_written, speech_paths, fetches, uploads, raised>>

\* Speech chunks of a multi-chunk request that uses /tmp.
FileChunks == 2

\* The requests that run at the same time in one function instance.
Workers == {1, 2}

\* The fixed names in /tmp: temp_audio_{i}.mp3, temp_speech_{i}.mp3,
\* music_segment_{i}.mp3, music_segment_final.mp3, temp_speech.mp3 and
\* temp_music.mp3.
TempAudio(i) == <<"temp_audio", i>>
TempSpeechChunk(i) == <<"temp_speech", i>>
MusicSegment(i) == <<"music_segment", i>>
MusicSegmentFinal == <<"music_segment_final">>
TempSpeech == <<"temp_speech">>
TempMusic == <<"temp_music">>

TmpNames ==
    {TempAudio(i) : i \in 0..(FileChunks - 1)}
    \cup {TempSpeechChunk(i) : i \in 0..(FileChunks - 1)}
    \cup {MusicSegment(i) : i \in 0..(FileChunks - 1)}
    \cup {MusicSegmentFinal, TempSpeech, TempMusic}

\* A file of /tmp that holds audio of request r.
File(r) == [owner |-> r]

\* The operations on /tmp: a conversion or extraction that writes the file,
\* open(path, 'rb') and read, os.remove, and os.remove guarded by
\* os.path.exists.
WriteOp(f) == [op |-> "write", file |-> f]
ReadOp(f) == [op |-> "read", file |-> f]
RemoveOp(f) == [op |-> "remove", file |-> f]
RemoveIfExistsOp(f) == [op |-> "remove_if_exists", file |-> f]

RECURSIVE Flatten(_)
Flatten(seqs) == IF seqs = <<>> THEN <<>> ELSE Head(seqs) \o Flatten(Tail(seqs))

\* concatenate_audio_files on n chunks: every chunk is converted to
\* /tmp/temp_audio_{i}.mp3, then each is read and removed in turn.
ConcatenateAudioFilesOps(n) ==
    [k \in 1..n |-> WriteOp(TempAudio(k - 1))]
    \o Flatten([k \in 1..n |-> <<ReadOp(TempAudio(k - 1)),
                                 RemoveOp(TempAudio(k - 1))>>])

\* splice_simple_concat: speech and music are converted to the two fixed
\* files, then each is read and removed in turn.
SpliceSimpleConcatOps ==
    <<WriteOp(TempSpeech), WriteOp(TempMusic),
      ReadOp(TempSpeech), RemoveOp(TempSpeech),
      ReadOp(TempMusic), RemoveOp(TempMusic)>>

\* _splice_distributed_pyav on n chunks whose music segments are all present:
\* the n + 1 segments are extracted, the chunks converted, the files read in
\* the interleaved order and, last, removed where they exist.
SpliceDistributedOps(n) ==
    LET segments == [k \in 1..n |-> MusicSegment(k - 1)]
                    \o <<MusicSegmentFinal>>
        converted == [k \in 1..n |-> TempSpeechChunk(k - 1)]
        order == <<converted[1]>>
                 \o Flatten([k \in 1..n |->
                       <<segments[k]>>
                       \o (IF k < n THEN <<converted[k + 1]>> ELSE <<>>)])
                 \o <<segments[n + 1]>>
        all_temp_files == segments \o converted
    IN  [k \in 1..(n + 1) |-> WriteOp(segments[k])]
        \o [k \in 1..n |-> WriteOp(converted[k])]
        \o [k \in 1..Len(order) |-> ReadOp(order[k])]
        \o [k \in 1..Len(all_temp_files) |-> RemoveIfExistsOp(all_temp_files[k])]

\* The /tmp operations of a whole request: a single chunk is spliced by
\* splice_intro; several chunks are first joined by concatenate_audio_files
\* for the speech duration and then spliced by _splice_distributed_pyav.
Jobs == {"single", "chunks"}
OpsOf(job) ==
    IF job = "single"
    THEN SpliceSimpleConcatOps
    ELSE ConcatenateAudioFilesOps(FileChunks) \o SpliceDistributedOps(FileChunks)

\* An audio file as the limiter sees it: its play duration.
Asset(duration) == [duration |-> duration]

\* Faulty variant of LimitDuration: the part after max_duration is kept
\* instead of the part before it.
LimitDurationKeepsTail(asset, max_duration) ==
    IF asset.duration <= max_duration
    THEN asset
    ELSE Asset(asset.duration - max_duration)

\* limit_duration: the input file is copied to the output file as it is.
LimitDuration(asset, max_duration) == asset

\* Longest asset given to the limiter, and largest bound, in seconds.
MaxAssetSec == 12
MaxLimitSec == 6

\* No use of limit_duration is modelled.
LimiterIdle == limiter = [input |-> Asset(0), max_duration |-> 0, outputs |-> <<>>]

\* os.path.getsize / 16000: 128 kbps MP3 is about 16 KB per second.
BytesPerSecond == 16000
\* The default duration, in seconds.
DefaultDurationSec == 180

\* Largest file size drawn for the probe, in half seconds of 16000 bytes.
MaxSizeHalfSec == 8

\* container.duration cannot be read; os.path.getsize fails.
Unreadable == [unreadable |-> TRUE]
NoSize == [missing |-> TRUE]
FileSize(bytes) == [bytes |-> bytes]

\* The files get_audio_duration may be given, and PyAV imported or not.
ProbeInputs ==
    [pyav : BOOLEAN,
     container : {Asset(d) : d \in MusicDurations} \cup {Unreadable},
     size : {FileSize(j * (BytesPerSecond \div 2)) : j \in 0..MaxSizeHalfSec}
                \cup {NoSize}]

Raised == [raised |-> TRUE]
Returned(value) == [raised |-> FALSE, value |-> value]

\* Faulty variant of GetAudioDuration: a failing os.path.getsize is not caught.
GetAudioDurationNoDefault(in) ==
    IF ~in.pyav
    THEN Raised
    ELSE IF in.container # Unreadable
         THEN Returned(in.container.duration)
         ELSE IF in.size # NoSize
              THEN Returned((in.size.bytes * TicksPerSec) \div BytesPerSecond)
              ELSE Raised

\* get_audio_duration: raises when PyAV was not imported; otherwise the
\* container duration, else the file size / 16000, else 180.0.
GetAudioDuration(in) ==
    IF ~in.pyav
    THEN Raised
    ELSE IF in.container # Unreadable
         THEN Returned(in.container.duration)
         ELSE IF in.size # NoSize
              THEN Returned((in.size.bytes * TicksPerSec) \div BytesPerSecond)
              ELSE Returned(Sec(DefaultDurationSec))

NotCalled == [called |-> FALSE]

\* No call of get_audio_duration is modelled.
ProbeIdle ==
    probe = [in |-> [pyav |-> TRUE, container |-> Unreadable, size |-> NoSize],
             result |-> NotCalled]

\* /tmp holds none of the fixed-name files and no request uses it.
FilesIdle ==
    /\ tmp = [f \in TmpNames |-> None]
    /\ workers = [r \in Workers |->
                     [job |-> "single", at |-> 1, status |-> "idle",
                      read_from |-> {}]]

Min(a, b) == IF a <= b THEN a ELSE b

\* What PyAV does in one call of _extract_music_segment: the range is
\* extracted ("ok"); the extraction raises and the conversion of the whole
\* file succeeds ("fallback"); both raise ("fail").
ExtractOutcomes == {"ok", "fallback", "fail"}

\* Faulty variant of ExtractMusicSegment: a failed extraction is not replaced
\* by the whole file but raised.
ExtractMusicSegmentNoFallback(d, start_time, end_time, outcome) ==
    IF outcome = "ok"
    THEN Music(Min(start_time, d), Min(end_time, d))
    ELSE Raised

\* _extract_music_segment called with end_time > start_time on music that
\* lasts d: the audio the segment file holds afterwards, or the exception.
\* The frames of [start_time, end_time) that the music has are written; the
\* fallback writes the whole music.
ExtractMusicSegment(d, start_time, end_time, outcome) ==
    CASE outcome = "ok" -> Music(Min(start_time, d), Min(end_time, d))
      [] outcome = "fallback" -> Music(0, d)
      [] outcome = "fail" -> Raised

\* infile.seek(1024): the bytes skipped in every file after the first.
SkipBytes == 1024

\* Most files joined by one concatenation, and the largest file size in
\* halves of SkipBytes.
MaxFiles == 3
MaxSizeHalfSkips == 4

FileSizes == {h * (SkipBytes \div 2) : h \in 0..MaxSizeHalfSkips}

\* The bytes from..to-1 of the file with the 0-based list index i.
Bytes(i, from, to) == [file |-> i, from |-> from, to |-> to]

\* Faulty variant of ReadForConcat: the first 1024 bytes of the first file are
\* skipped too.
ReadForConcatSkipsFirst(i, size) ==
    IF SkipBytes < size THEN <<Bytes(i, SkipBytes, size)>> ELSE <<>>

\* What one iteration of the concatenation loop writes to outfile for file i
\* of the given size: the whole file for i = 0; for i > 0 what read() returns
\* after seek(1024), nothing when the file ends at or before that offset.
ReadForConcat(i, size) ==
    LET offset == IF i > 0 THEN SkipBytes ELSE 0
    IN  IF offset < size THEN <<Bytes(i, offset, size)>> ELSE <<>>

\* The input files of the request, in the temporary directory.
InputFiles == {<<"original.mp3">>, <<"speech_i.mp3", 0>>, <<"speech_i.mp3", 1>>}

\* "if file_size > 1024": a download of at most 1 KB has no content.
MinContentBytes == 1024

\* Faulty variant of HasContent: a file of exactly 1024 bytes is accepted.
HasContentFrom1024(file_size) == file_size >= MinContentBytes

HasContent(file_size) == file_size > MinContentBytes

\* The strategies list of download_youtube_audio, in order.
Strategies(with_cookies) ==
    (IF with_cookies
     THEN <<"web_with_cookies", "android_with_cookies">>
     ELSE <<>>)
    \o <<"ios_client", "android_client", "tv_embedded", "default_web">>

\* What one run of yt-dlp can leave at output_path: no file, a file of 1024
\* bytes, a larger file.
LeftByStrategy == {None, FileSize(MinContentBytes), FileSize(2 * MinContentBytes)}

\* generate-speech: max_retries = 2 and retry_delay = 1 (seconds).
MaxRetries == 2
FirstRetryDelay == 1

\* Faulty variant of RetriesLeft: one retry more than max_retries is granted.
RetriesLeftPlusOne(attempt) == attempt < MaxRetries + 1

\* "if attempt < max_retries" for the 0-based attempt number.
RetriesLeft(attempt) == attempt < MaxRetries

\* How one requests.post to ElevenLabs ends: an HTTP response, a
\* requests Timeout, a requests ConnectionError, any other exception.
PostOutcomes == {"response", "timeout", "connection_error", "other_exception"}

\* The HTTP responses of ElevenLabs that the handler tells apart: audio, an
\* empty body with status 200, and error statuses.
ApiResponses ==
    {[ok |-> TRUE, content |-> TRUE, status |-> 200],
     [ok |-> TRUE, content |-> FALSE, status |-> 200],
     [ok |-> FALSE, content |-> TRUE, status |-> 401],
     [ok |-> FALSE, content |-> TRUE, status |-> 422],
     [ok |-> FALSE, content |-> TRUE, status |-> 429]}

\* Session ids that match ^\d{13}-[a-f0-9]{8}$, and the voice ids of
\* generate-speech.
Sessions == {"session_1", "session_2"}
Voices == {"voice_1"}

\* Most blobs one endpoint stores in one folder, and most blobs in the store
\* when a cleanup starts.
MaxBlobsPerFolder == 2
MaxStored == 3

\* A blob: the folder and the key that make its path folder/key/name, and
\* the session whose request stored it.
Blob(folder, key, n, owner) ==
    [folder |-> folder, key |-> key, n |-> n, owner |-> owner]

\* The blobs the _upload_to_blob_storage of the four endpoints can store:
\* youtube-audio/{session_id}/ (extract-audio), custom-audio/{session_id}/
\* (upload-audio), final-audio/{session_id}/ (splice-audio) and
\* tts-audio/{voice_id}/ (generate-speech).
StorableBlobs ==
    {Blob(folder, s, n, s) :
        folder \in {"youtube-audio", "custom-audio", "final-audio"},
        s \in Sessions, n \in 1..MaxBlobsPerFolder}
    \cup {Blob("tts-audio", v, n, s) :
            v \in Voices, n \in 1..MaxBlobsPerFolder, s \in Sessions}

\* Faulty variant of SessionPatterns: the final audio is not cleaned up.
SessionPatternsWithoutFinal(session_id) ==
    <<[folder |-> "youtube-audio", key |-> session_id],
      [folder |-> "tts-audio", key |-> session_id]>>

\* session_patterns: the three prefixes folder/{session_id}/.
SessionPatterns(session_id) ==
    <<[folder |-> "youtube-audio", key |-> session_id],
      [folder |-> "tts-audio", key |-> session_id],
      [folder |-> "final-audio", key |-> session_id]>>

\* vercel_blob.list({'prefix': pattern}): the blobs of the store whose path
\* starts with the prefix, as a list.
RECURSIVE ListFrom(_, _, _)
ListFrom(store, pattern, n) ==
    IF n > MaxBlobsPerFolder
    THEN <<>>
    ELSE LET here == {b \in store : /\ b.folder = pattern.folder
                                    /\ b.key = pattern.key
                                    /\ b.n = n}
         IN  (IF here = {} THEN <<>> ELSE <<CHOOSE b \in here : TRUE>>)
             \o ListFrom(store, pattern, n + 1)

ListBlobs(store, pattern) == ListFrom(store, pattern, 1)

\* The sessionId of a cleanup request: a well-formed id, a malformed one, none.
CleanupSessionIds == Sessions \cup {"malformed", Absent}

\* The value of a variable whose operation is not part of the behaviour.
Idle == [idle |-> TRUE]

ExtractionIdle == extraction = Idle
ConcatIdle == concat = Idle
DownloadIdle == download = Idle
TtsIdle == tts = Idle
CleanupIdle == cleanup = Idle

ServicesIdle ==
    ExtractionIdle /\ ConcatIdle /\ DownloadIdle /\ TtsIdle /\ CleanupIdle

AuxIdle == LimiterIdle /\ ProbeIdle /\ FilesIdle /\ ServicesIdle

\* All sequences over S of length lo..hi.
SeqsOf(S, lo, hi) == UNION {[1..k -> S] : k \in lo..hi}

\* _splice_distributed_pyav, lines 381-398: the insertion points.
PlanInsertionPoints ==
    /\ pc = "plan"
    /\ insertion_points' = InsertionPoints(music_duration, Len(speech_durations))
    /\ pc' = "split"
    /\ UNCHANGED <<speech_durations, music_duration, music_segments,
                   extract_calls, temp_files_to_concat, handlerVars>>
    /\ UNCHANGED auxVars

\* _splice_distributed_pyav, line 401: the call of _split_music_for_insertion.
SplitMusic ==
    /\ pc = "split"
    /\ music_segments' = SplitMusicForInsertion(music_duration, insertion_points)
    /\ extract_calls' = ExtractCalls(music_segments')
    /\ pc' = "interleave"
    /\ UNCHANGED <<speech_durations, music_duration, insertion_points,
                   temp_files_to_concat, handlerVars>>
    /\ UNCHANGED auxVars

\* _splice_distributed_pyav, lines 403-450: the concatenation list, written
\* to output_path.
InterleaveSegments ==
    /\ pc = "interleave"
    /\ temp_files_to_concat' =
           Interleave(Len(speech_durations), insertion_points, music_segments)
    /\ files_written' = files_written \cup {<<"final.mp3">>}
    /\ pc' = "spliced"
    /\ UNCHANGED <<speech_durations, music_duration, insertion_points,
                   music_segments, extract_calls, request,
                   has_multiple_chunks, strategy, responses, speech_paths,
                   fetches, uploads, raised>>
    /\ UNCHANGED auxVars

\* A call of _splice_distributed_pyav with n >= 1 speech chunks.
InitPlan ==
    /\ pc = "plan"
    /\ speech_durations \in SeqsOf(SpeechDurations, 1, MaxChunks)
    /\ request = [music |-> "b64", speech |-> "b64_list",
                  chunks |-> Len(speech_durations),
                  spliceMode |-> "distributed", sessionId |-> TRUE]
    /\ has_multiple_chunks = (Len(speech_durations) > 1)
    /\ strategy = "distributed"
    /\ music_duration \in MusicDurations
    /\ insertion_points = <<>>
    /\ music_segments = <<>>
    /\ extract_calls = <<>>
    /\ temp_files_to_concat = <<>>
    /\ responses = <<>>
    /\ files_written = {<<"original.mp3">>}
                          \cup {SpeechFile(request, i - 1) :
                                   i \in 1..Len(speech_durations)}
    /\ speech_paths = [i \in 1..Len(speech_durations) |->
                          SpeechFile(request, i - 1)]
    /\ fetches = <<>>
    /\ uploads = <<>>
    /\ raised = "none"
    /\ AuxIdle

NextPlan == PlanInsertionPoints \/ SplitMusic \/ InterleaveSegments

SpecPlan == InitPlan /\ [][NextPlan]_vars

\* The request ends: the exception is caught by the outer except of do_POST
\* (lines 235-236), which sends status 500.
EndWithError(exception) ==
    /\ raised' = exception
    /\ responses' = responses \o <<ErrorResponse(500)>>
    /\ pc' = "done"

\* do_POST, lines 79-99: the fields are read and the request is validated.
ReceiveRequest ==
    /\ pc = "idle"
    /\ \E r \in Requests :
         /\ request' = r
         /\ IF ~(HasOriginal(r) /\ HasSpeech(r)) \/ ~r.sessionId
            THEN /\ \E sent \in SendAttempts(ErrorResponse(400), "try") :
                      responses' = responses \o sent
                 /\ pc' = "done"
            ELSE /\ responses' = responses
                 /\ pc' = "load_music"
    /\ UNCHANGED <<has_multiple_chunks, strategy, speech_durations,
                   music_duration, insertion_points, music_segments,
                   extract_calls, temp_files_to_concat, ioVars>>
    /\ UNCHANGED auxVars

\* do_POST, lines 102-113: the music is downloaded from its blob URL, or
\* decoded from base64, and written to original.mp3.
LoadMusic ==
    /\ pc = "load_music"
    /\ \E ok \in BOOLEAN :
         /\ fetches' = IF request.music = "url"
                       THEN Append(fetches, Fetch(MusicAsset, ok))
                       ELSE fetches
         /\ IF request.music = "url" /\ DownloadRaises(ok)
            THEN /\ EndWithError("download")
                 /\ UNCHANGED files_written
            ELSE IF request.music # "url" /\ ~ok
            THEN /\ EndWithError("b64decode")
                 /\ UNCHANGED files_written
            ELSE /\ files_written' = files_written \cup {<<"original.mp3">>}
                 /\ pc' = "load_speech"
                 /\ UNCHANGED <<raised, responses>>
    /\ UNCHANGED <<request, has_multiple_chunks, strategy, speech_durations,
                   music_duration, insertion_points, music_segments,
                   extract_calls, temp_files_to_concat, speech_paths, uploads>>
    /\ UNCHANGED auxVars

\* do_POST, lines 115-148: one iteration of the loop over the speech chunks
\* (or the single base64 chunk): the chunk is downloaded or decoded, written
\* to its file and appended to speech_paths.
LoadSpeechChunk ==
    /\ pc = "load_speech"
    /\ Len(speech_paths) < request.chunks
    /\ LET i == Len(speech_paths)
       IN  \E ok \in BOOLEAN :
             /\ fetches' = IF request.speech = "urls"
                           THEN Append(fetches, Fetch(SpeechAsset(i), ok))
                           ELSE fetches
             /\ IF request.speech = "urls" /\ DownloadRaises(ok)
                THEN /\ EndWithError("download")
                     /\ UNCHANGED <<files_written, speech_paths>>
                ELSE IF request.speech # "urls" /\ ~ok
                THEN /\ EndWithError("b64decode")
                     /\ UNCHANGED <<files_written, speech_paths>>
                ELSE /\ files_written' =
                            files_written \cup {SpeechFile(request, i)}
                     /\ speech_paths' =
                            Append(speech_paths, SpeechFile(request, i))
                     /\ UNCHANGED <<pc, raised, responses>>
    /\ UNCHANGED <<request, has_multiple_chunks, strategy, speech_durations,
                   music_duration, insertion_points, music_segments,
                   extract_calls, temp_files_to_concat, uploads>>
    /\ UNCHANGED auxVars

\* do_POST, lines 117-162: has_multiple_chunks is set, get_audio_duration
\* probes the music and the speech (the chunks joined in combined_speech.mp3
\* when there are several).
ProbeDurations ==
    /\ pc = "load_speech"
    /\ Len(speech_paths) = request.chunks
    /\ has_multiple_chunks' = (request.chunks > 1)
    /\ music_duration' \in MusicDurations
    /\ speech_durations' \in [1..request.chunks -> SpeechDurations]
    /\ files_written' = IF request.chunks > 1
                        THEN files_written \cup {<<"combined_speech.mp3">>}
                        ELSE files_written
    /\ pc' = "select"
    /\ UNCHANGED <<request, strategy, insertion_points, music_segments,
                   extract_calls, temp_files_to_concat, responses,
                   speech_paths, fetches, uploads, raised>>
    /\ UNCHANGED auxVars

\* do_POST, lines 164-184: the branch on has_multiple_chunks and splice_mode.
SelectStrategy ==
    /\ pc = "select"
    /\ strategy' = StrategyFor(has_multiple_chunks, SpliceModeOf(request))
    /\ pc' = IF strategy' = "distributed" THEN "plan" ELSE "intro"
    /\ UNCHANGED <<request, has_multiple_chunks, speech_durations,
                   music_duration, insertion_points, music_segments,
                   extract_calls, temp_files_to_concat, responses, ioVars>>
    /\ UNCHANGED auxVars

\* splice_intro / splice_simple_concat: the speech file, then the music,
\* written to output_path.
SpliceIntro ==
    /\ pc = "intro"
    /\ temp_files_to_concat' = IntroPieces(Len(speech_durations), music_duration)
    /\ files_written' = files_written \cup {<<"final.mp3">>}
    /\ pc' = "spliced"
    /\ UNCHANGED <<request, has_multiple_chunks, strategy, speech_durations,
                   music_duration, insertion_points, music_segments,
                   extract_calls, responses, speech_paths, fetches, uploads,
                   raised>>
    /\ UNCHANGED auxVars

\* do_POST, lines 186-233: when musicDuration is given the spliced file is
\* copied to limited.mp3 by limit_duration; the final audio is uploaded and
\* the response sent: 200 when the upload returns a URL, 503 when blob storage
\* is unavailable or the upload fails.
UploadAndRespond ==
    /\ pc = "spliced"
    /\ \E limit_given \in BOOLEAN :
         files_written' = IF limit_given
                          THEN files_written \cup {<<"limited.mp3">>}
                          ELSE files_written
    /\ \E outcome \in UploadOutcomes :
         /\ uploads' = IF PutCalled(outcome)
                        THEN Append(uploads, PutResult(outcome))
                        ELSE uploads
         /\ \E sent \in SendAttempts(ResponseAfterUpload(outcome),
                                     IF outcome = "ok"
                                     THEN "upload_try" ELSE "try") :
              responses' = responses \o sent
    /\ pc' = "done"
    /\ UNCHANGED <<request, has_multiple_chunks, strategy, speech_durations,
                   music_duration, insertion_points, music_segments,
                   extract_calls, temp_files_to_concat, speech_paths,
                   fetches, raised>>
    /\ UNCHANGED auxVars

\* do_POST, lines 235-236: an exception raised while the assets are probed or
\* spliced (PyAV, a file) is answered with status 500.
RaiseInternalError ==
    /\ pc \in {"load_speech", "select", "intro", "plan", "split",
               "interleave", "spliced"}
    /\ EndWithError("processing")
    /\ UNCHANGED <<request, has_multiple_chunks, strategy, speech_durations,
                   music_duration, insertion_points, music_segments,
                   extract_calls, temp_files_to_concat, files_written,
                   speech_paths, fetches, uploads>>
    /\ UNCHANGED auxVars

\* One request arriving at the handler.
RequestIdle ==
    /\ pc = "idle"
    /\ request = [music |-> "none", speech |-> "none", chunks |-> 0,
                  spliceMode |-> Absent, sessionId |-> FALSE]
    /\ has_multiple_chunks = FALSE
    /\ strategy = "none"
    /\ speech_durations = <<>>
    /\ music_duration = 0
    /\ insertion_points = <<>>
    /\ music_segments = <<>>
    /\ extract_calls = <<>>
    /\ temp_files_to_concat = <<>>
    /\ responses = <<>>
    /\ files_written = {}
    /\ speech_paths = <<>>
    /\ fetches = <<>>
    /\ uploads = <<>>
    /\ raised = "none"

Init == RequestIdle /\ AuxIdle

Next ==
    \/ ReceiveRequest
    \/ LoadMusic
    \/ LoadSpeechChunk
    \/ ProbeDurations
    \/ SelectStrategy
    \/ SpliceIntro
    \/ PlanInsertionPoints
    \/ SplitMusic
    \/ InterleaveSegments
    \/ UploadAndRespond
    \/ RaiseInternalError

Spec == Init /\ [][Next]_vars

\* do_POST, lines 186-190: limit_duration is applied to the spliced file when
\* musicDuration is given (is truthy).
ApplyDurationLimit ==
    /\ limiter.outputs = <<>>
    /\ limiter.max_duration # 0
    /\ limiter' = [limiter EXCEPT !.outputs =
                      <<LimitDuration(limiter.input, limiter.max_duration)>>]
    /\ UNCHANGED <<requestVars, probe, tmp, workers, serviceVars>>

\* limit_duration applied to its own output with the same bound.
ApplyDurationLimitAgain ==
    /\ Len(limiter.outputs) = 1
    /\ limiter' = [limiter EXCEPT !.outputs =
                      Append(@, LimitDuration(limiter.outputs[1],
                                              limiter.max_duration))]
    /\ UNCHANGED <<requestVars, probe, tmp, workers, serviceVars>>

\* A spliced file and a musicDuration (0: not given).
InitLimit ==
    /\ RequestIdle
    /\ limiter \in [input : {Asset(h * (TicksPerSec \div 2)) :
                                h \in 0..(2 * MaxAssetSec)},
                    max_duration : {Sec(k) : k \in 0..MaxLimitSec},
                    outputs : {<<>>}]
    /\ ProbeIdle
    /\ FilesIdle
    /\ ServicesIdle

NextLimit == ApplyDurationLimit \/ ApplyDurationLimitAgain

SpecLimit == InitLimit /\ [][NextLimit]_vars

\* A call of get_audio_duration.
CallGetAudioDuration ==
    /\ probe.result = NotCalled
    /\ probe' = [probe EXCEPT !.result = GetAudioDuration(probe.in)]
    /\ UNCHANGED <<requestVars, limiter, tmp, workers, serviceVars>>

InitProbe ==
    /\ RequestIdle
    /\ LimiterIdle
    /\ probe \in [in : ProbeInputs, result : {NotCalled}]
    /\ FilesIdle
    /\ ServicesIdle

NextProbe == CallGetAudioDuration

SpecProbe == InitProbe /\ [][NextProbe]_vars

\* The next /tmp operation of request r succeeds.
StepWorker(r) ==
    LET w == workers[r]
        o == OpsOf(w.job)[w.at]
        next == IF w.at = Len(OpsOf(w.job)) THEN "ok" ELSE "running"
        missing == tmp[o.file] = None
    IN  /\ w.status = "running"
        /\ CASE o.op = "write" ->
                  /\ tmp' = [tmp EXCEPT ![o.file] = File(r)]
                  /\ workers' = [workers EXCEPT ![r].at = @ + 1,
                                                ![r].status = next]
             [] o.op = "read" ->
                  /\ tmp' = tmp
                  /\ workers' =
                       IF missing
                       THEN [workers EXCEPT ![r].status = "error"]
                       ELSE [workers EXCEPT
                               ![r].at = @ + 1,
                               ![r].status = next,
                               ![r].read_from = @ \cup {tmp[o.file].owner}]
             [] o.op = "remove" ->
                  /\ tmp' = [tmp EXCEPT ![o.file] = None]
                  /\ workers' =
                       IF missing
                       THEN [workers EXCEPT ![r].status = "error"]
                       ELSE [workers EXCEPT ![r].at = @ + 1,
                                            ![r].status = next]
             [] o.op = "remove_if_exists" ->
                  /\ tmp' = [tmp EXCEPT ![o.file] = None]
                  /\ workers' = [workers EXCEPT ![r].at = @ + 1,
                                                ![r].status = next]
        /\ UNCHANGED <<requestVars, limiter, probe, serviceVars>>

\* A conversion or extraction of request r raises (PyAV cannot decode the
\* input), before or after its output file was created; the request ends with
\* the error response and no further /tmp operation.
FailWorker(r) ==
    LET w == workers[r]
        o == OpsOf(w.job)[w.at]
    IN  /\ w.status = "running"
        /\ o.op = "write"
        /\ \E created \in BOOLEAN :
             tmp' = IF created THEN [tmp EXCEPT ![o.file] = File(r)] ELSE tmp
        /\ workers' = [workers EXCEPT ![r].status = "error"]
        /\ UNCHANGED <<requestVars, limiter, probe, serviceVars>>

\* Two requests start in an empty /tmp.
InitFiles ==
    /\ RequestIdle
    /\ LimiterIdle
    /\ ProbeIdle
    /\ tmp = [f \in TmpNames |-> None]
    /\ workers \in [Workers -> [job : Jobs, at : {1}, status : {"running"},
                                read_from : {{}}]]
    /\ ServicesIdle

NextFiles == \E r \in Workers : StepWorker(r) \/ FailWorker(r)

SpecFiles == InitFiles /\ [][NextFiles]_vars

\* _split_music_for_insertion, lines 533-545: one iteration of the loop over
\* the insertion points; the segment before the point is extracted when it is
\* not empty, else None is appended.
ExtractSegmentBeforePoint ==
    LET e == extraction
        point == e.points[e.at]
        start == CurrentStart(e.points, e.at)
    IN  /\ e.status = "running"
        /\ e.at <= Len(e.points)
        /\ IF point > start
           THEN \E outcome \in ExtractOutcomes :
                  LET file == ExtractMusicSegment(e.music_duration, start,
                                                  point, outcome)
                  IN  extraction' =
                        [e EXCEPT
                           !.calls = Append(@, Segment(start, point)),
                           !.outcomes = Append(@, outcome),
                           !.files = IF file = Raised THEN @ ELSE Append(@, file),
                           !.status = IF file = Raised THEN "raised" ELSE @,
                           !.at = IF file = Raised THEN @ ELSE @ + 1]
           ELSE extraction' = [e EXCEPT !.files = Append(@, None),
                                        !.at = @ + 1]
        /\ UNCHANGED <<requestVars, limiter, probe, tmp, workers,
                       concat, download, tts, cleanup>>

\* _split_music_for_insertion, lines 547-565: the final segment is extracted
\* when the last point lies before the end, and the list is returned.
ExtractFinalSegment ==
    LET e == extraction
        start == CurrentStart(e.points, Len(e.points) + 1)
    IN  /\ e.status = "running"
        /\ e.at = Len(e.points) + 1
        /\ IF start < e.music_duration
           THEN \E outcome \in ExtractOutcomes :
                  LET file == ExtractMusicSegment(e.music_duration, start,
                                                  e.music_duration, outcome)
                  IN  extraction' =
                        [e EXCEPT
                           !.calls = Append(@, Segment(start, e.music_duration)),
                           !.outcomes = Append(@, outcome),
                           !.files = IF file = Raised THEN @ ELSE Append(@, file),
                           !.status = IF file = Raised THEN "raised"
                                      ELSE "returned"]
           ELSE extraction' = [e EXCEPT !.status = "returned"]
        /\ UNCHANGED <<requestVars, limiter, probe, tmp, workers,
                       concat, download, tts, cleanup>>

\* _split_music_for_insertion is called with the points planned for n chunks.
InitExtract ==
    /\ RequestIdle
    /\ LimiterIdle /\ ProbeIdle /\ FilesIdle
    /\ \E d \in MusicDurations, n \in 1..MaxChunks :
         extraction = [music_duration |-> d,
                       points |-> InsertionPoints(d, n),
                       at |-> 1,
                       calls |-> <<>>,
                       outcomes |-> <<>>,
                       files |-> <<>>,
                       status |-> "running"]
    /\ ConcatIdle /\ DownloadIdle /\ TtsIdle /\ CleanupIdle

NextExtract == ExtractSegmentBeforePoint \/ ExtractFinalSegment

SpecExtract == InitExtract /\ [][NextExtract]_vars

\* One iteration of "for i, temp_path in enumerate(...)" of the binary
\* concatenation (lines 305-314, 443-450, 673-680): the next file is read and
\* written to outfile.
AppendFileBytes ==
    LET c == concat
        i == c.at
    IN  /\ c.at < Len(c.sizes)
        /\ concat' = [c EXCEPT !.output = @ \o ReadForConcat(i, c.sizes[i + 1]),
                               !.at = @ + 1]
        /\ UNCHANGED <<requestVars, limiter, probe, tmp, workers,
                       extraction, download, tts, cleanup>>

\* A concatenation of one to MaxFiles files opens its output file.
InitConcat ==
    /\ RequestIdle
    /\ LimiterIdle /\ ProbeIdle /\ FilesIdle
    /\ ExtractionIdle
    /\ \E sizes \in SeqsOf(FileSizes, 1, MaxFiles),
          inputs \in [InputFiles -> FileSizes \ {0}] :
         concat = [sizes |-> sizes, at |-> 0, output |-> <<>>,
                   inputs_before |-> inputs, inputs |-> inputs]
    /\ DownloadIdle /\ TtsIdle /\ CleanupIdle

NextConcat == AppendFileBytes

SpecConcat == InitConcat /\ [][NextConcat]_vars

\* download_youtube_audio, lines 48-67: the cookies file is created when
\* cookies are given; when that fails the file is unlinked and the function
\* raises "Invalid cookies format".
CreateCookiesFile ==
    /\ download.status = "start"
    /\ IF download.with_cookies
       THEN \E written \in BOOLEAN :
              download' = [download EXCEPT
                             !.cookies_file = IF written THEN "exists"
                                              ELSE "removed",
                             !.status = IF written THEN "running" ELSE "raised"]
       ELSE download' = [download EXCEPT !.status = "running"]
    /\ UNCHANGED <<requestVars, limiter, probe, tmp, workers,
                   extraction, concat, tts, cleanup>>

\* download_youtube_audio, lines 157-227: one iteration of the loop over the
\* strategies. extract_info returns info, returns nothing or raises, and
\* leaves output_path in some state; a file with content ends the loop, a file
\* without content is deleted, every exception goes on to the next strategy.
TryStrategy ==
    LET s == Strategies(download.with_cookies)
        k == Len(download.tried) + 1
    IN  /\ download.status = "running"
        /\ k <= Len(s)
        /\ \E result \in {"raise", "none", "info"}, left \in LeftByStrategy :
             LET checked == result = "info" /\ left # None
                 success == checked /\ HasContent(left.bytes)
             IN  download' =
                   [download EXCEPT
                      !.tried = Append(@, [name |-> s[k],
                                           info |-> result = "info",
                                           left |-> left]),
                      !.file = IF checked /\ ~success THEN None ELSE left,
                      !.last_error = @ \/ result = "raise",
                      !.video_info =
                          IF success
                          THEN [strategy |-> s[k], file_size |-> left.bytes]
                          ELSE None,
                      !.status = IF success \/ k = Len(s)
                                 THEN "cleanup" ELSE "running"]
        /\ UNCHANGED <<requestVars, limiter, probe, tmp, workers,
                       extraction, concat, tts, cleanup>>

\* download_youtube_audio, lines 229-255: the cookies file is unlinked, then
\* video_info is returned when there is one, else an exception is raised.
FinishDownload ==
    /\ download.status = "cleanup"
    /\ download' = [download EXCEPT
                      !.cookies_file = IF @ = "exists" THEN "removed" ELSE @,
                      !.status = IF download.video_info # None
                                 THEN "returned" ELSE "raised"]
    /\ UNCHANGED <<requestVars, limiter, probe, tmp, workers,
                   extraction, concat, tts, cleanup>>

\* download_youtube_audio is called, with or without cookies, on the empty
\* temporary file its caller created.
InitDownload ==
    /\ RequestIdle
    /\ LimiterIdle /\ ProbeIdle /\ FilesIdle
    /\ ExtractionIdle /\ ConcatIdle
    /\ \E with_cookies \in BOOLEAN :
         download = [with_cookies |-> with_cookies,
                     cookies_file |-> "none",
                     tried |-> <<>>,
                     file |-> FileSize(0),
                     last_error |-> FALSE,
                     video_info |-> None,
                     status |-> "start"]
    /\ TtsIdle /\ CleanupIdle

NextDownload == CreateCookiesFile \/ TryStrategy \/ FinishDownload

SpecDownload == InitDownload /\ [][NextDownload]_vars

\* generate-speech do_POST, lines 144-169 and 222-228: one iteration of the
\* retry loop around requests.post. A response ends the loop; a timeout or a
\* connection error sleeps retry_delay, doubles it and goes on while retries
\* are left, else answers 408 or 503; any other exception answers 500.
AttemptSpeechRequest ==
    LET attempt == Len(tts.attempts)
    IN  /\ tts.status = "requesting"
        /\ attempt < MaxRetries + 1
        /\ \E outcome \in PostOutcomes :
             tts' =
               CASE outcome = "response" ->
                      [tts EXCEPT !.attempts = Append(@, outcome),
                                  !.status = "received"]
                 [] outcome \in {"timeout", "connection_error"} ->
                      IF RetriesLeft(attempt)
                      THEN [tts EXCEPT !.attempts = Append(@, outcome),
                                       !.sleeps = Append(@, tts.retry_delay),
                                       !.retry_delay = @ * 2]
                      ELSE [tts EXCEPT
                              !.attempts = Append(@, outcome),
                              !.responses =
                                  Append(@, IF outcome = "timeout"
                                            THEN 408 ELSE 503),
                              !.status = "done"]
                 [] outcome = "other_exception" ->
                      [tts EXCEPT !.attempts = Append(@, outcome),
                                  !.responses = Append(@, 500),
                                  !.status = "done"]
        /\ UNCHANGED <<requestVars, limiter, probe, tmp, workers,
                       extraction, concat, download, cleanup>>

\* generate-speech do_POST, lines 171-220: the response of ElevenLabs is
\* answered: its error status, 500 for an empty body, 503 without blob
\* storage or when the upload fails, 200 with the blob URL.
AnswerSpeechRequest ==
    /\ tts.status = "received"
    /\ \E api \in ApiResponses, uploaded \in BOOLEAN :
         tts' = [tts EXCEPT
                   !.api = api,
                   !.responses =
                       Append(@, IF ~api.ok THEN api.status
                                 ELSE IF ~api.content THEN 500
                                 ELSE IF ~tts.blob_available THEN 503
                                 ELSE IF uploaded THEN 200 ELSE 503),
                   !.status = "done"]
    /\ UNCHANGED <<requestVars, limiter, probe, tmp, workers,
                   extraction, concat, download, cleanup>>

\* A valid text-to-speech request reaches the retry loop; vercel_blob was
\* imported or not.
InitSpeech ==
    /\ RequestIdle
    /\ LimiterIdle /\ ProbeIdle /\ FilesIdle
    /\ ExtractionIdle /\ ConcatIdle /\ DownloadIdle
    /\ \E blob_available \in BOOLEAN :
         tts = [blob_available |-> blob_available,
                attempts |-> <<>>,
                sleeps |-> <<>>,
                retry_delay |-> FirstRetryDelay,
                api |-> None,
                responses |-> <<>>,
                status |-> "requesting"]
    /\ CleanupIdle

NextSpeech == AttemptSpeechRequest \/ AnswerSpeechRequest

SpecSpeech == InitSpeech /\ [][NextSpeech]_vars

\* An endpoint stores a blob before the cleanup is requested.
StoreBlob ==
    /\ cleanup.phase = "storing"
    /\ Cardinality(cleanup.store) < MaxStored
    /\ \E b \in StorableBlobs \ cleanup.store :
         /\ \A c \in cleanup.store :
               ~(c.folder = b.folder /\ c.key = b.key /\ c.n = b.n)
         /\ cleanup' = [cleanup EXCEPT !.store = @ \cup {b}]
    /\ UNCHANGED <<requestVars, limiter, probe, tmp, workers,
                   extraction, concat, download, tts>>

\* cleanup-session do_POST, lines 24-64: the request is validated; without a
\* well-formed sessionId it is answered 400, without the blob package 503,
\* without the token 500; else the loop over the patterns starts.
StartCleanup ==
    /\ cleanup.phase = "storing"
    /\ \E session_id \in CleanupSessionIds,
          env \in {"ready", "no_blob_package", "no_token"} :
         LET rejected == IF session_id \notin Sessions THEN 400
                         ELSE IF env = "no_blob_package" THEN 503
                         ELSE IF env = "no_token" THEN 500
                         ELSE 0
         IN  cleanup' =
               IF rejected # 0
               THEN [cleanup EXCEPT
                       !.session_id = session_id,
                       !.phase = "done",
                       !.response = [status |-> rejected, success |-> FALSE,
                                     filesDeleted |-> 0]]
               ELSE [cleanup EXCEPT
                       !.session_id = session_id,
                       !.stored_at_start = cleanup.store,
                       !.phase = "listing",
                       !.at = 1]
    /\ UNCHANGED <<requestVars, limiter, probe, tmp, workers,
                   extraction, concat, download, tts>>

\* cleanup-session do_POST, lines 67-90 and 117-128: the blobs of the next
\* pattern are listed. A list that raises is recorded as an error; a result of
\* an unexpected format counts as no blobs.
ListPattern ==
    /\ cleanup.phase = "listing"
    /\ cleanup.at <= Len(SessionPatterns(cleanup.session_id))
    /\ \E outcome \in {"listed", "unexpected_format", "raises"} :
         LET pattern == SessionPatterns(cleanup.session_id)[cleanup.at]
             blobs == IF outcome = "listed"
                      THEN ListBlobs(cleanup.store, pattern) ELSE <<>>
         IN  cleanup' =
               [cleanup EXCEPT
                  !.processed = Append(@, pattern.folder),
                  !.not_listed = IF outcome = "listed"
                                 THEN @ ELSE @ \cup {pattern.folder},
                  !.errors = IF outcome = "raises" THEN @ + 1 ELSE @,
                  !.listed = blobs,
                  !.phase = IF blobs = <<>> THEN "listing" ELSE "deleting",
                  !.at = IF blobs = <<>> THEN @ + 1 ELSE @]
    /\ UNCHANGED <<requestVars, limiter, probe, tmp, workers,
                   extraction, concat, download, tts>>

\* cleanup-session do_POST, lines 92-116: the next listed blob is deleted. A
\* blob without URL is passed over; a delete that raises is recorded as an
\* error; the loop goes on with the remaining blobs.
DeleteListedBlob ==
    /\ cleanup.phase = "deleting"
    /\ \E outcome \in {"deleted", "no_url", "raises"} :
         LET blob == Head(cleanup.listed)
             rest == Tail(cleanup.listed)
         IN  cleanup' =
               [cleanup EXCEPT
                  !.attempted = @ \cup {blob},
                  !.store = IF outcome = "deleted" THEN @ \ {blob} ELSE @,
                  !.deleted = IF outcome = "deleted" THEN @ \cup {blob} ELSE @,
                  !.files_deleted = IF outcome = "deleted" THEN @ + 1 ELSE @,
                  !.errors = IF outcome = "raises" THEN @ + 1 ELSE @,
                  !.listed = rest,
                  !.phase = IF rest = <<>> THEN "listing" ELSE "deleting",
                  !.at = IF rest = <<>> THEN @ + 1 ELSE @]
    /\ UNCHANGED <<requestVars, limiter, probe, tmp, workers,
                   extraction, concat, download, tts>>

\* cleanup-session do_POST, lines 130-154: the summary is sent with status 200.
RespondCleanup ==
    /\ cleanup.phase = "listing"
    /\ cleanup.at > Len(SessionPatterns(cleanup.session_id))
    /\ cleanup' = [cleanup EXCEPT
                     !.phase = "done",
                     !.response = [status |-> 200,
                                   success |-> cleanup.errors = 0,
                                   filesDeleted |-> cleanup.files_deleted]]
    /\ UNCHANGED <<requestVars, limiter, probe, tmp, workers,
                   extraction, concat, download, tts>>

\* An empty blob store.
InitCleanup ==
    /\ RequestIdle
    /\ LimiterIdle /\ ProbeIdle /\ FilesIdle
    /\ ExtractionIdle /\ ConcatIdle /\ DownloadIdle /\ TtsIdle
    /\ cleanup = [store |-> {},
                  stored_at_start |-> {},
                  session_id |-> Absent,
                  phase |-> "storing",
                  at |-> 0,
                  processed |-> <<>>,
                  not_listed |-> {},
                  listed |-> <<>>,
                  attempted |-> {},
                  deleted |-> {},
                  files_deleted |-> 0,
                  errors |-> 0,
                  response |-> None]

NextCleanup ==
    \/ StoreBlob
    \/ StartCleanup
    \/ ListPattern
    \/ DeleteListedBlob
    \/ RespondCleanup

SpecCleanup == InitCleanup /\ [][NextCleanup]_vars

(***************************************************************************)
(* Properties                                                              *)
(***************************************************************************)

\* _split_music_for_insertion has returned.
SplitDone == pc \in {"interleave", "spliced"} /\ strategy = "distributed"

\* _splice_distributed_pyav has built its concatenation list.
InterleaveDone == pc = "spliced" /\ strategy = "distributed"

NumChunks == Len(speech_durations)

\* The music segment ranges, in order (the entries that are not None).
MusicRanges == SelectSeq(music_segments, LAMBDA s : s # None)

\* The planned duration of one piece, and of a list of pieces.
PieceDuration(p) ==
    IF p.kind = "music"
    THEN p.end - p.start
    ELSE SumSeq([j \in 1..Len(p.chunks) |-> speech_durations[p.chunks[j] + 1]])

PlannedDuration(pieces) ==
    SumSeq([j \in 1..Len(pieces) |-> PieceDuration(pieces[j])])

\* The music at which the reserved buffers fit in half of the track:
\* from here on available = music_duration - buffer_start - buffer_end.
LongMusic == music_duration >= 2 * (buffer_start + buffer_end)

\* C1: for d > 0 the music segment ranges, in order, start at 0, end at d and
\* each starts where the previous one ended: they partition [0, d].
C1_SegmentsPartitionTimeline ==
    (SplitDone /\ music_duration > 0) =>
        LET r == MusicRanges
        IN  /\ Len(r) >= 1
            /\ r[1].start = 0
            /\ r[Len(r)].end = music_duration
            /\ \A i \in 1..Len(r) : r[i].start < r[i].end
            /\ \A i \in 1..(Len(r) - 1) : r[i + 1].start = r[i].end

\* C2: for d > 0 and n >= 2 the planned durations of the pieces of the
\* concatenation list add up to d + s_1 + ... + s_n.
C2_DurationIsMusicPlusSpeech ==
    (InterleaveDone /\ music_duration > 0 /\ NumChunks >= 2) =>
        PlannedDuration(temp_files_to_concat)
            = music_duration + SumSeq(speech_durations)

\* C3: for d > 0 every call of _extract_music_segment made while splitting has
\* 0 <= start < end <= d.
C3_ExtractWithinMusic ==
    (SplitDone /\ music_duration > 0) =>
        \A i \in 1..Len(extract_calls) :
            /\ 0 <= extract_calls[i].start
            /\ extract_calls[i].start < extract_calls[i].end
            /\ extract_calls[i].end <= music_duration

\* C4 as stated: every insertion point p has 5 <= p <= d - 10.
C4_PointsRespectBothBuffers ==
    (pc \in {"split", "interleave", "spliced"} /\ strategy = "distributed") =>
        \A i \in 1..Len(insertion_points) :
            /\ buffer_start <= insertion_points[i]
            /\ insertion_points[i] <= music_duration - buffer_end

\* C4 as amended: every insertion point p has p >= 5, and p <= d - 10 when
\* d >= 30 (for shorter music the trailing buffer is not kept).
C4_PointsRespectBuffersOfLongMusic ==
    (pc \in {"split", "interleave", "spliced"} /\ strategy = "distributed") =>
        \A i \in 1..Len(insertion_points) :
            /\ buffer_start <= insertion_points[i]
            /\ LongMusic => insertion_points[i] <= music_duration - buffer_end

\* C4 witness: several points planned in music of 30 s or more, the last one
\* past the leading buffer.
C4_Witness ==
    /\ pc = "split"
    /\ LongMusic
    /\ Len(insertion_points) >= 2
    /\ insertion_points[Len(insertion_points)] > buffer_start

\* C5: the first piece of the concatenation list of a distributed splice is
\* speech chunk 1 (index 0), and it is placed nowhere else.
C5_FirstPieceIsFirstSpeech ==
    InterleaveDone =>
        /\ Len(temp_files_to_concat) >= 1
        /\ temp_files_to_concat[1] = Speech(<<0>>)
        /\ \A j \in 2..Len(temp_files_to_concat) :
               temp_files_to_concat[j] # Speech(<<0>>)

\* C5 witness: a distributed splice whose list holds music after the intro.
C5_Witness ==
    /\ InterleaveDone
    /\ Len(temp_files_to_concat) >= 2
    /\ temp_files_to_concat[2].kind = "music"

\* C6 as stated: for n >= 2 and d > 0 the list starts with speech, ends with
\* music and no two neighbours are of the same kind.
C6_StrictAlternation ==
    (InterleaveDone /\ NumChunks >= 2 /\ music_duration > 0) =>
        LET P == temp_files_to_concat
        IN  /\ Len(P) >= 2
            /\ P[1].kind = "speech"
            /\ P[Len(P)].kind = "music"
            /\ \A j \in 1..(Len(P) - 1) : P[j].kind # P[j + 1].kind

\* C6 as amended: for n >= 2 and d > 0 the list is speech 1, then music
\* segment i and speech i+1 for i = 1..n-1, then music segment n, then the
\* final music segment exactly when the last insertion point is before the
\* end of the music; the final segment continues segment n.
C6_AlternationThenTwoMusic ==
    (InterleaveDone /\ NumChunks >= 2 /\ music_duration > 0) =>
        LET P == temp_files_to_concat
            n == NumChunks
        IN  /\ Len(P) \in {2 * n, 2 * n + 1}
            /\ P[1] = Speech(<<0>>)
            /\ \A i \in 1..(n - 1) :
                   /\ P[2 * i].kind = "music"
                   /\ P[2 * i + 1] = Speech(<<i>>)
            /\ P[2 * n].kind = "music"
            /\ (Len(P) = 2 * n + 1) <=> (insertion_points[n] < music_duration)
            /\ (Len(P) = 2 * n + 1) =>
                   P[2 * n + 1] = Music(P[2 * n].end, music_duration)

\* C6 witness: a list that ends with two music segments.
C6_Witness ==
    /\ InterleaveDone
    /\ NumChunks >= 2
    /\ Len(temp_files_to_concat) = 2 * NumChunks + 1

\* C7: with no spliceMode in the request, the splice run is the distributed
\* one when there are several chunks and the intro one otherwise.
C7_DefaultModeByChunkCount ==
    (request.spliceMode = Absent /\ strategy # "none") =>
        strategy = (IF has_multiple_chunks THEN "distributed" ELSE "intro")

\* A single chunk in random mode has been spliced.
RandomSingleSpliced ==
    /\ pc = "spliced"
    /\ request.spliceMode = "random"
    /\ NumChunks = 1

C9_RandomFallsBackToIntro ==
    (/\ pc = "spliced"
     /\ request.spliceMode \in {"random", "intro"}
     /\ NumChunks = 1
     /\ music_duration < 2 * speech_durations[1]) =>
        temp_files_to_concat = <<Speech(<<0>>), Music(0, music_duration)>>

\* C9 witness: random mode, one chunk, music shorter than twice the speech.
C9_Witness ==
    /\ RandomSingleSpliced
    /\ music_duration > 0
    /\ music_duration < 2 * speech_durations[1]

\* Planning degenerates: an insertion point at or beyond the end of the music.
PlanningDegenerate(d, n) ==
    \E i \in 1..n : InsertionPoints(d, n)[i] >= d

\* C10: distributed mode, several chunks, degenerate planning: the request is
\* served with the intro list (all speech, then the whole music).
C10_DegenerateFallsBackToIntro ==
    (/\ pc = "spliced"
     /\ request.spliceMode = "distributed"
     /\ has_multiple_chunks
     /\ PlanningDegenerate(music_duration, NumChunks)) =>
        temp_files_to_concat = IntroPieces(NumChunks, music_duration)

\* C11: in intro mode, for any n >= 1, the list is all speech chunks in request
\* order, then the whole music once, and nothing else.
C11_IntroIsSpeechThenMusic ==
    (pc = "spliced" /\ SpliceModeOf(request) = "intro") =>
        LET P == temp_files_to_concat
        IN  /\ strategy = "intro"
            /\ Len(P) = 2
            /\ P[1].kind = "speech"
            /\ Len(P[1].chunks) = NumChunks
            /\ \A i \in 1..NumChunks : P[1].chunks[i] = i - 1
            /\ P[2].kind = "music"
            /\ P[2].start = 0
            /\ P[2].end = music_duration

\* C11 witness: several chunks spliced in intro mode.
C11_Witness ==
    /\ pc = "spliced"
    /\ request.spliceMode = "intro"
    /\ NumChunks >= 2
    /\ music_duration > 0

\* Every response begun is an error response.
OnlyErrorResponses ==
    \A j \in 1..Len(responses) : ~responses[j].success

\* No asset was fetched, no file written, no splice run, nothing uploaded.
NothingDone ==
    /\ files_written = {}
    /\ fetches = <<>>
    /\ strategy = "none"
    /\ temp_files_to_concat = <<>>
    /\ uploads = <<>>

\* C14: a request without music or without speech is answered with the input
\* error (status 400) and nothing is fetched, written, spliced or uploaded.
C14_MissingAssetRejectedFirst ==
    (pc = "done" /\ (request.music = "none" \/ request.speech = "none")) =>
        /\ Len(responses) >= 1
        /\ responses[1] = ErrorResponse(400)
        /\ OnlyErrorResponses
        /\ NothingDone

\* C14 witness: a request with music, a session id and no speech has ended.
C14_Witness ==
    /\ pc = "done"
    /\ request.music = "url"
    /\ request.sessionId
    /\ request.speech = "none"
    /\ responses = <<ErrorResponse(400)>>

\* C17: a request that has ended began exactly one response.
C17_ExactlyOneResponse ==
    pc = "done" => Len(responses) = 1

\* C19: each asset is fetched at most once, with the fixed timeout; a failed
\* fetch is the last one, and it ends the request with an error before any
\* splice or upload.
C19_FetchOnceAndFailHard ==
    /\ \A i, j \in 1..Len(fetches) :
          i # j => fetches[i].asset # fetches[j].asset
    /\ \A i \in 1..Len(fetches) :
          /\ fetches[i].timeout = DownloadTimeoutSec
          /\ ~fetches[i].ok =>
                /\ i = Len(fetches)
                /\ pc = "done"
                /\ Len(responses) >= 1
                /\ OnlyErrorResponses
                /\ strategy = "none"
                /\ temp_files_to_concat = <<>>
                /\ uploads = <<>>

\* C19 witness: the music was fetched and the fetch of a speech chunk failed.
C19_Witness ==
    /\ Len(fetches) >= 2
    /\ fetches[1].ok
    /\ ~fetches[Len(fetches)].ok

\* C20: an inline payload that cannot be decoded is answered with status 400,
\* as a missing field is.
C20_UndecodablePayloadIsInputError ==
    raised = "b64decode" =>
        /\ Len(responses) >= 1
        /\ responses[1].status = 400

\* C12: with a maximum duration given, the duration of the returned file is
\* min(duration of the spliced file, maximum).
C12_LimitTruncatesToBound ==
    Len(limiter.outputs) >= 1 =>
        limiter.outputs[1].duration
            = Min(limiter.input.duration, limiter.max_duration)

\* C13: limit_duration applied twice with the same bound gives the same file
\* as applied once.
C13_LimitIdempotent ==
    Len(limiter.outputs) = 2 => limiter.outputs[2] = limiter.outputs[1]

\* C13 witness: the limiter was applied twice to a file longer than the bound.
C13_Witness ==
    /\ Len(limiter.outputs) = 2
    /\ limiter.input.duration > limiter.max_duration

\* What the probe is documented to return when it does not fail.
ProbeValue(in) ==
    IF in.container # Unreadable
    THEN in.container.duration
    ELSE IF in.size # NoSize
         THEN (in.size.bytes * TicksPerSec) \div BytesPerSecond
         ELSE Sec(DefaultDurationSec)

\* C18 as stated: get_audio_duration never raises, in any environment, and
\* returns the container duration, else size / 16000, else 180.
C18_ProbeNeverFails ==
    probe.result # NotCalled =>
        /\ ~probe.result.raised
        /\ probe.result.value = ProbeValue(probe.in)

\* C18 as amended: when PyAV was imported get_audio_duration never raises and
\* returns the container duration, else size / 16000, else 180; when PyAV was
\* not imported it raises.
C18_ProbeFailsOnlyWithoutPyAV ==
    probe.result # NotCalled =>
        IF probe.in.pyav
        THEN /\ ~probe.result.raised
             /\ probe.result.value = ProbeValue(probe.in)
        ELSE probe.result.raised

\* C18 witness: with PyAV, neither the container nor the size can be read and
\* the default is returned.
C18_Witness ==
    /\ probe.in.pyav
    /\ probe.in.container = Unreadable
    /\ probe.in.size = NoSize
    /\ probe.result = Returned(Sec(DefaultDurationSec))

Finished(r) == workers[r].status \in {"ok", "error"}

\* C15: once a request has ended, with success or with an error, no file it
\* wrote under a fixed /tmp name is left.
C15_NoTempFileAfterResponse ==
    \A r \in Workers :
        Finished(r) => \A f \in TmpNames : tmp[f] # File(r)

\* C16: a request reads only temporary files that it wrote itself.
C16_ReadsOnlyOwnFiles ==
    \A r \in Workers : workers[r].read_from \subseteq {r}

\* C21: a single chunk gives exactly one point at 5; n > 1 chunks give exactly
\* n points, point[i] = 5 + i * (max(d - 15, d * 0.5) / n) for i = 0..n-1,
\* non-decreasing, and strictly increasing when d > 0.
C21_PointsFollowReferenceFormula ==
    (pc \in {"split", "interleave", "spliced"} /\ strategy = "distributed") =>
        LET n == NumChunks
            d == music_duration
            p == insertion_points
        IN  IF n = 1
            THEN p = <<Sec(5)>>
            ELSE /\ Len(p) = n
                 /\ \A i \in 1..n :
                        2 * n * (p[i] - Sec(5))
                            = (i - 1) * Max(2 * (d - Sec(15)), d)
                 /\ \A i \in 1..(n - 1) :
                        /\ p[i] <= p[i + 1]
                        /\ d > 0 => p[i] < p[i + 1]

\* C21 witness: several points planned over music that lasts, the last one
\* after the first.
C21_Witness ==
    /\ pc = "split"
    /\ strategy = "distributed"
    /\ NumChunks = MaxChunks
    /\ music_duration > 0
    /\ insertion_points[NumChunks] > insertion_points[1]

\* The speech pieces of the concatenation list, in list order.
SpeechPieces == SelectSeq(temp_files_to_concat, LAMBDA p : p.kind = "speech")

\* C24: in a distributed splice of n >= 1 chunks the list holds every chunk
\* exactly once and in request order, whatever the music duration and also
\* when a music segment is None.
C24_EveryChunkOnceInOrder ==
    InterleaveDone =>
        SpeechPieces = [i \in 1..NumChunks |-> Speech(<<i - 1>>)]

\* C24 witness: a list built for several chunks with a music segment absent.
C24_Witness ==
    /\ InterleaveDone
    /\ NumChunks >= 2
    /\ \E i \in 1..Len(music_segments) : music_segments[i] = None

\* C25: several chunks in mode random or distributed run the distributed
\* splice, whose list depends on the durations only; mode intro runs the intro
\* splice; a single chunk runs the intro splice in every mode; one strategy is
\* selected per request.
C25_StrategyIsFunctionOfModeAndChunks ==
    strategy # "none" =>
        /\ strategy \in {"intro", "distributed"}
        /\ (request.chunks > 1 /\ request.spliceMode \in {"random", "distributed"})
               => strategy = "distributed"
        /\ request.spliceMode = "intro" => strategy = "intro"
        /\ request.chunks = 1 => strategy = "intro"
        /\ (strategy = "distributed" /\ pc = "spliced") =>
               temp_files_to_concat =
                   Interleave(NumChunks,
                              InsertionPoints(music_duration, NumChunks),
                              SplitMusicForInsertion(
                                  music_duration,
                                  InsertionPoints(music_duration, NumChunks)))

\* C25 witness: a single chunk with an unknown mode was spliced by the intro
\* splice.
C25_Witness ==
    /\ pc = "spliced"
    /\ request.chunks = 1
    /\ request.spliceMode = "other"
    /\ strategy = "intro"

\* The segment files written so far (the entries that are not None), in call
\* order, and the audio they hold in total.
ExtractedFiles == SelectSeq(extraction.files, LAMBDA f : f # None)
ExtractedDuration ==
    SumSeq([k \in 1..Len(ExtractedFiles) |->
               ExtractedFiles[k].end - ExtractedFiles[k].start])

\* C22: a failed extraction whose fallback conversion succeeds puts the whole
\* music in the segment file and the split goes on to return its list; the
\* split raises only when the fallback fails too; after a fallback for a
\* range shorter than the music the files hold more audio than the music.
C22_FailedExtractionFallsBackToWholeMusic ==
    extraction # Idle =>
        LET e == extraction
            failed == \E k \in 1..Len(e.outcomes) : e.outcomes[k] = "fail"
        IN  /\ (e.status = "raised") <=> failed
            /\ ~failed => Len(ExtractedFiles) = Len(e.calls)
            /\ \A k \in 1..Len(ExtractedFiles) :
                   e.outcomes[k] = "fallback" =>
                       ExtractedFiles[k] = Music(0, e.music_duration)
            /\ (/\ e.status = "returned"
                /\ \E k \in 1..Len(e.calls) :
                      /\ e.outcomes[k] = "fallback"
                      /\ Min(e.calls[k].end, e.music_duration)
                             - Min(e.calls[k].start, e.music_duration)
                         < e.music_duration)
               => ExtractedDuration > e.music_duration

\* C22 witness: the list was returned after the fallback replaced a range
\* that does not start at 0.
C22_Witness ==
    /\ extraction # Idle
    /\ extraction.status = "returned"
    /\ \E k \in 1..Len(extraction.calls) :
          /\ extraction.outcomes[k] = "fallback"
          /\ extraction.calls[k].start > 0
          /\ extraction.files # <<>>

ConcatDone == concat # Idle /\ concat.at = Len(concat.sizes)

\* C23: the output of the byte-level concatenation of f_0..f_k is all of f_0,
\* then for each i >= 1 in order the bytes of f_i from offset 1024 on (nothing
\* when f_i has at most 1024 bytes); the input files are unchanged.
C23_ConcatKeepsOrderAndSkipsPrefix ==
    ConcatDone =>
        LET out == concat.output
            size(i) == concat.sizes[i + 1]
            k == Len(concat.sizes) - 1
        IN  /\ \A i \in 0..k :
                   LET part == SelectSeq(out, LAMBDA b : b.file = i)
                   IN  IF i = 0
                       THEN part = IF size(0) > 0
                                   THEN <<Bytes(0, 0, size(0))>> ELSE <<>>
                       ELSE part = IF size(i) > 1024
                                   THEN <<Bytes(i, 1024, size(i))>> ELSE <<>>
            /\ \A j \in 1..(Len(out) - 1) : out[j].file < out[j + 1].file
            /\ \A j \in 1..Len(out) : out[j].file \in 0..k
            /\ concat.inputs = concat.inputs_before

\* C23 witness: three files joined, the first shorter than 1024 bytes and kept
\* whole, the second of exactly 1024 bytes, the third longer.
C23_Witness ==
    /\ ConcatDone
    /\ Len(concat.sizes) = 3
    /\ concat.sizes[1] \in 1..1023
    /\ concat.sizes[2] = 1024
    /\ concat.sizes[3] > 1024
    /\ Len(concat.output) = 2

DownloadEnded == download # Idle /\ download.status \in {"returned", "raised"}

\* The strategies tried so far are the first ones of the fixed order, each
\* once; the cookie strategies are there only with cookies.
TriedInFixedOrder ==
    LET s == IF download.with_cookies
             THEN <<"web_with_cookies", "android_with_cookies", "ios_client",
                    "android_client", "tv_embedded", "default_web">>
             ELSE <<"ios_client", "android_client", "tv_embedded",
                    "default_web">>
    IN  /\ Len(download.tried) <= Len(s)
        /\ \A k \in 1..Len(download.tried) : download.tried[k].name = s[k]

\* The function returns a result only for a file of more than 1024 bytes,
\* raises otherwise, and has removed the cookies file when it ends.
ReturnsOnlyFilesWithContent ==
    /\ (download.status = "returned") =>
           /\ download.video_info # None
           /\ download.video_info.file_size > 1024
           /\ download.file = FileSize(download.video_info.file_size)
           /\ download.video_info.strategy
                  = download.tried[Len(download.tried)].name
    /\ DownloadEnded => download.cookies_file # "exists"

\* C26 as stated: the strategies run in the fixed order, each at most once;
\* the loop stops at the first strategy that leaves a file larger than 1024
\* bytes and that result is returned; otherwise the function raises; no result
\* is returned for a file of 1024 bytes or less; the cookies file is removed.
C26_StopsAtFirstLargeFile ==
    download # Idle =>
        LET large(k) == /\ download.tried[k].left # None
                        /\ download.tried[k].left.bytes > 1024
        IN  /\ TriedInFixedOrder
            /\ ReturnsOnlyFilesWithContent
            /\ \A k \in 1..(Len(download.tried) - 1) : ~large(k)
            /\ (DownloadEnded /\ download.tried # <<>>) =>
                   ((download.status = "returned")
                        <=> large(Len(download.tried)))

\* C26 as amended: the loop stops at the first strategy whose extract_info
\* returns info and leaves a file larger than 1024 bytes, and that result is
\* returned; a strategy that raises or returns no info is passed over also
\* when it leaves a larger file; when no strategy succeeds the function
\* raises; the rest as stated.
C26_StopsAtFirstSuccessfulStrategy ==
    download # Idle =>
        LET ok(k) == /\ download.tried[k].info
                     /\ download.tried[k].left # None
                     /\ download.tried[k].left.bytes > 1024
        IN  /\ TriedInFixedOrder
            /\ ReturnsOnlyFilesWithContent
            /\ \A k \in 1..(Len(download.tried) - 1) : ~ok(k)
            /\ (DownloadEnded /\ download.tried # <<>>) =>
                   /\ (download.status = "returned") <=> ok(Len(download.tried))
                   /\ (download.status = "raised") =>
                          Len(download.tried)
                              = (IF download.with_cookies THEN 6 ELSE 4)

\* C26 witness: with cookies, the third strategy is the first to succeed,
\* after one that left a file of exactly 1024 bytes, and its result is
\* returned with the cookies file removed.
C26_Witness ==
    /\ download # Idle
    /\ download.status = "returned"
    /\ download.with_cookies
    /\ download.cookies_file = "removed"
    /\ Len(download.tried) = 3
    /\ download.tried[2].info
    /\ download.tried[2].left = FileSize(1024)

\* C27: the text-to-speech request is attempted at most 3 times; only a
\* timeout or a connection error is followed by another attempt, after 1 s and
\* then 2 s; the third such failure is answered 408 (timeout) or 503
\* (connection error); a response ends the loop; any other exception is
\* answered 500 at once.
C27_AtMostThreeAttempts ==
    tts # Idle =>
        LET a == tts.attempts
            n == Len(a)
            retried == {"timeout", "connection_error"}
        IN  /\ n <= 3
            /\ \A k \in 1..(n - 1) : a[k] \in retried
            /\ tts.sleeps \in {<<>>, <<1>>, <<1, 2>>}
            /\ Len(tts.sleeps) = Cardinality({k \in 1..n : k < 3 /\ a[k] \in retried})
            /\ (n >= 1 /\ a[n] = "response") => tts.status # "requesting"
            /\ (n >= 1 /\ a[n] = "other_exception") =>
                   tts.status = "done" /\ tts.responses = <<500>>
            /\ (n = 3 /\ a[n] = "timeout") =>
                   tts.status = "done" /\ tts.responses = <<408>>
            /\ (n = 3 /\ a[n] = "connection_error") =>
                   tts.status = "done" /\ tts.responses = <<503>>
            /\ (n < 3 /\ (n = 0 \/ a[n] \in retried)) =>
                   tts.status = "requesting" /\ tts.responses = <<>>
            /\ tts.status = "done" => Len(tts.responses) = 1

\* C27 witness: a timeout, then a connection error, then a timeout: two sleeps
\* of 1 s and 2 s and the answer 408.
C27_Witness ==
    /\ tts # Idle
    /\ tts.attempts = <<"timeout", "connection_error", "timeout">>
    /\ tts.sleeps = <<1, 2>>
    /\ tts.responses = <<408>>

\* The cleanup ran its loop and answered with its summary.
CleanupAnswered ==
    cleanup # Idle /\ cleanup.phase = "done" /\ cleanup.response.status = 200

\* C28: the three prefixes youtube-audio, tts-audio and final-audio of the
\* validated session are all processed whatever fails; every blob listed is
\* tried; success is true exactly when no error was recorded; filesDeleted is
\* the number of deletes that returned; only blobs under the three prefixes of
\* the session are deleted.
C28_CleanupProcessesAllPrefixes ==
    CleanupAnswered =>
        LET c == cleanup
            folders == {"youtube-audio", "tts-audio", "final-audio"}
        IN  /\ c.session_id \in Sessions
            /\ c.processed = <<"youtube-audio", "tts-audio", "final-audio">>
            /\ \A b \in c.stored_at_start :
                   (/\ b.folder \in folders \ c.not_listed
                    /\ b.key = c.session_id) => b \in c.attempted
            /\ c.response.success <=> c.errors = 0
            /\ c.response.filesDeleted = Cardinality(c.deleted)
            /\ c.deleted = c.stored_at_start \ c.store
            /\ \A b \in c.deleted :
                   b.folder \in folders /\ b.key = c.session_id

\* C28 witness: a delete failed, a later blob of the same prefix and a blob of
\* a later prefix were deleted, and success is false.
C28_Witness ==
    /\ CleanupAnswered
    /\ ~cleanup.response.success
    /\ cleanup.response.filesDeleted = 2
    /\ \E b \in cleanup.attempted \ cleanup.deleted :
          /\ b.folder = "youtube-audio"
          /\ b.n = 1
          /\ \E d \in cleanup.deleted : d.folder = "youtube-audio"
          /\ \E d \in cleanup.deleted : d.folder = "final-audio"

\* C29: after a cleanup of session S that reports success, no blob stored for
\* session S by any endpoint is left in the store.
C29_NoSessionBlobAfterCleanup ==
    (CleanupAnswered /\ cleanup.response.success) =>
        \A b \in cleanup.store : b.owner # cleanup.session_id

\* C30: a response with success = true is sent only after exactly one upload
\* of the final audio returned a non-empty URL, and carries that URL as
\* finalAudioUrl; when the blob package is unavailable, the token is missing,
\* the upload raises or returns no URL, every response is an error with an
\* empty finalAudioUrl and without the audio.
C30_SuccessOnlyAfterOneUpload ==
    pc = "done" =>
        LET stored == Len(uploads) = 1 /\ ~uploads[1].raised /\ uploads[1].url # ""
        IN  /\ Len(uploads) <= 1
            /\ \A i \in 1..Len(responses) :
                   IF responses[i].success
                   THEN /\ stored
                        /\ responses[i].finalAudioUrl = uploads[1].url
                        /\ responses[i].status = 200
                   ELSE /\ responses[i].finalAudioUrl = ""
                        /\ responses[i].deliveryMethod = "error"
                        /\ responses[i].status \in {400, 500, 503}
            /\ ~stored => \A i \in 1..Len(responses) : ~responses[i].success
            /\ (stored /\ responses # <<>>) => responses[1].success

\* C30 witness: the only upload returned no URL and the request was answered
\* with the error 503.
C30_Witness ==
    /\ pc = "done"
    /\ Len(uploads) = 1
    /\ ~uploads[1].raised
    /\ uploads[1].url = ""
    /\ responses = <<ErrorResponse(503)>>

====
